---- MODULE Spec2Model ----
(***************************************************************************)
(* A model of options_pattern/main.go: an HTTP client configured by        *)
(* functional options (NewClient, WithTimeout, WithUserAgent,              *)
(* WithoutRedirects, UseInsecureTransport) and its request method          *)
(* Client.Get, which writes the timeout and the redirect policy onto the   *)
(* shared *http.Client handle before every request.                        *)
(*                                                                         *)
(* Durations are counted in seconds. net/http is modelled by what the      *)
(* calls made in main.go observe of it: http.NewRequest (URL parsing),     *)
(* http.Client.Do (deadline from Client.Timeout, round trips, the          *)
(* CheckRedirect hook).                                                    *)
(***************************************************************************)
EXTENDS Integers, Sequences, FiniteSets, TLC

VARIABLES
    options,    \* NewClient's variadic argument: the option sequence
    i,          \* NewClient's loop: number of options applied so far
    npc,        \* NewClient's position: "loop" | "returned"
    c,          \* the Client (one instance; c.client is the shared handle)
    built,      \* the resolved configuration NewClient returned (None before)
    pc,         \* each Get call's position
    target,     \* each Get call's url argument
    req,        \* each Get call's request (local to the call)
    wrote,      \* what each Get call wrote onto the handle (lines 78-84)
    used,       \* the settings each call's request ran under inside Do
    responses,  \* each call's round-trip outcomes, one per request issued
    ret,        \* each Get call's return value (resp, err)
    writer      \* history: which call last wrote each field of the handle

vars == <<options, i, npc, c, built, pc, target, req, wrote, used, responses, ret, writer>>

buildVars == <<options, i, npc, c, built>>

callVars == <<pc, target, req, wrote, used, responses, ret, writer>>

---------------------------------------------------------------------------
(* Bounds of the model *)

\* longest option sequence passed to NewClient in SpecBuild
MaxOpts == 3

\* longest option sequence behind the Client that SpecGet's calls share
MaxGetOpts == 1

\* longest redirect chain an endpoint serves
MaxHops == 2

---------------------------------------------------------------------------
(* Values *)

None == "nil"

\* durations offered to WithTimeout: negative, zero and positive ones
Durations == {-1, 0, 5, 10}

\* strings offered to WithUserAgent: the empty one included
UserAgents == {"", "My Custom User Agent"}

\* the two goroutines calling Get on the one Client
Callers == {"g1", "g2"}

\* 30 * time.Second
DefaultTimeout == 30

DefaultUserAgent == "My HTTP Client"

\* a nil Transport field: http.Client then uses http.DefaultTransport, which
\* verifies certificates
NilTransport == [isNil |-> TRUE, TLSClientConfig |-> [InsecureSkipVerify |-> FALSE]]

\* &http.Client{}: every field at its zero value
ZeroHTTPClient == [Transport |-> NilTransport, Timeout |-> 0, CheckRedirect |-> None]

\* &http.Transport{TLSClientConfig: &tls.Config{InsecureSkipVerify: true}}
InsecureTransport == [isNil |-> FALSE, TLSClientConfig |-> [InsecureSkipVerify |-> TRUE]]

\* a Client literal that leaves the timeout at its zero value
DefaultClientNoTimeout ==
    [client          |-> ZeroHTTPClient,
     timeout         |-> 0,
     userAgent       |-> DefaultUserAgent,
     followRedirects |-> TRUE]

\* the Client literal NewClient starts from
DefaultClient ==
    [client          |-> ZeroHTTPClient,
     timeout         |-> DefaultTimeout,
     userAgent       |-> DefaultUserAgent,
     followRedirects |-> TRUE]

---------------------------------------------------------------------------
(* The functional options: each is the closure body, applied to the Client *)

\* a WithTimeout that validates: it ignores a duration that is not positive
WithTimeoutValidated(timeout, cl) ==
    IF timeout > 0 THEN [cl EXCEPT !.timeout = timeout] ELSE cl

WithTimeout(timeout, cl) == [cl EXCEPT !.timeout = timeout]

\* a WithUserAgent that rebuilds the Client from its defaults
WithUserAgentFresh(userAgent, cl) ==
    [client          |-> cl.client,
     timeout         |-> DefaultTimeout,
     userAgent       |-> userAgent,
     followRedirects |-> TRUE]

WithUserAgent(userAgent, cl) == [cl EXCEPT !.userAgent = userAgent]

\* a WithoutRedirects that toggles the flag
WithoutRedirectsToggle(cl) == [cl EXCEPT !.followRedirects = ~@]

WithoutRedirects(cl) == [cl EXCEPT !.followRedirects = FALSE]

\* a UseInsecureTransport that installs a transport with verification left on
UseTransportStillVerifying(cl) ==
    [cl EXCEPT !.client.Transport =
        [isNil |-> FALSE, TLSClientConfig |-> [InsecureSkipVerify |-> FALSE]]]

UseInsecureTransport(cl) == [cl EXCEPT !.client.Transport = InsecureTransport]

\* An Option value: which constructor made the closure, and what it captured
Option ==
    [name : {"WithTimeout"}, arg : Durations]
    \cup [name : {"WithUserAgent"}, arg : UserAgents]
    \cup [name : {"WithoutRedirects", "UseInsecureTransport"}, arg : {None}]

\* opt(client): calling the closure
Apply(opt, cl) ==
    CASE opt.name = "WithTimeout"          -> WithTimeout(opt.arg, cl)
      [] opt.name = "WithUserAgent"        -> WithUserAgent(opt.arg, cl)
      [] opt.name = "WithoutRedirects"     -> WithoutRedirects(cl)
      [] opt.name = "UseInsecureTransport" -> UseInsecureTransport(cl)

RECURSIVE ApplyAll(_, _)
\* for _, opt := range options { opt(client) }
ApplyAll(opts, cl) ==
    IF opts = <<>> THEN cl ELSE ApplyAll(Tail(opts), Apply(Head(opts), cl))

\* NewClient as a function of its arguments
NewClient(opts) == ApplyAll(opts, DefaultClient)

\* the resolved configuration of a Client: its three fields and whether its
\* transport verifies certificates (a nil Transport is http.DefaultTransport)
SkipsVerify(cl) ==
    /\ ~cl.client.Transport.isNil
    /\ cl.client.Transport.TLSClientConfig.InsecureSkipVerify

Resolved(cl) ==
    [timeout         |-> cl.timeout,
     userAgent       |-> cl.userAgent,
     followRedirects |-> cl.followRedirects,
     insecure        |-> SkipsVerify(cl)]

OptionSeqs(n) == UNION {[1..k -> Option] : k \in 0..n}

---------------------------------------------------------------------------
(* Get calls: initial (idle) state of every call *)

NoReq == None

NoRet == [resp |-> None, err |-> None]

\* nothing written yet; nothing read yet (a field holds <<>> or <<value>>)
NoSettings == [Timeout |-> <<>>, CheckRedirect |-> <<>>]

NoUse ==
    [Timeout |-> <<>>, TimeoutFrom |-> <<>>,
     CheckRedirect |-> <<>>, CheckRedirectFrom |-> <<>>]

IdleCalls ==
    /\ pc = [p \in Callers |-> "idle"]
    /\ target = [p \in Callers |-> None]
    /\ req = [p \in Callers |-> NoReq]
    /\ wrote = [p \in Callers |-> NoSettings]
    /\ used = [p \in Callers |-> NoUse]
    /\ responses = [p \in Callers |-> <<>>]
    /\ ret = [p \in Callers |-> NoRet]
    /\ writer = [Timeout |-> None, CheckRedirect |-> None]

---------------------------------------------------------------------------
(* NewClient, statement by statement *)

InitBuild ==
    /\ options \in OptionSeqs(MaxOpts)
    /\ i = 0
    /\ npc = "loop"
    /\ c = DefaultClient
    /\ built = None
    /\ IdleCalls

\* one iteration of the loop: opt(client)
NewClientApply ==
    /\ npc = "loop"
    /\ i < Len(options)
    /\ c' = Apply(options[i + 1], c)
    /\ i' = i + 1
    /\ UNCHANGED <<options, npc, built>>
    /\ UNCHANGED callVars

\* return client
NewClientReturn ==
    /\ npc = "loop"
    /\ i = Len(options)
    /\ npc' = "returned"
    /\ built' = Resolved(c)
    /\ UNCHANGED <<options, i, c>>
    /\ UNCHANGED callVars

NextBuild == NewClientApply \/ NewClientReturn

SpecBuild == InitBuild /\ [][NextBuild]_vars

---------------------------------------------------------------------------
(* net/http as Client.Get observes it *)

\* url arguments offered to Get: a well-formed one, the empty string, one with
\* no scheme at all, and one whose scheme is missing before its colon
WellFormed == "https://example.com/users"

Targets == {WellFormed, "", "example.com/users", "://example.com"}

\* http.NewRequest("GET", url, nil) returns an error exactly when url.Parse
\* rejects url. url.Parse accepts the empty string and a scheme-less
\* reference (both parse as a relative path); it rejects a first segment
\* that starts with a colon ("missing protocol scheme").
NewRequestErr(url) ==
    IF url = "://example.com" THEN "parse: missing protocol scheme" ELSE None

\* the scheme url.Parse finds in an accepted url
Scheme(url) == IF url = WellFormed THEN "https" ELSE ""

\* the request http.NewRequest returns when it succeeds
NewRequest(url) ==
    [Method |-> "GET", URL |-> url, Header |-> [k \in {} |-> ""]]

\* req.Header.Set(key, value): the key is present afterwards, whatever value
HeaderSet(header, key, value) ==
    [k \in DOMAIN header \cup {key} |-> IF k = key THEN value ELSE header[k]]

\* Transport.RoundTrip refuses a request whose scheme is not http or https
\* before it opens any connection
RoundTripRefuses(r) == Scheme(r.URL) \notin {"http", "https"}

\* Client.deadline: a Timeout > 0 bounds the call, any other value does not
HasDeadline(timeout) == timeout > 0

---------------------------------------------------------------------------
(* Client.Get, statement by statement *)

\* a header write that leaves the header out when the user agent is empty
SetUserAgentUnlessEmpty(r, cl) ==
    IF cl.userAgent = "" THEN r
    ELSE [r EXCEPT !.Header = HeaderSet(@, "User-Agent", cl.userAgent)]

\* req.Header.Set("User-Agent", c.userAgent)
SetUserAgent(r, cl) ==
    [r EXCEPT !.Header = HeaderSet(@, "User-Agent", cl.userAgent)]

\* the assignment of line 78 written the other way round
WriteTimeoutReversed(cl) == [cl EXCEPT !.timeout = cl.client.Timeout]

\* the assignment of line 78 written as +=
WriteTimeoutAccumulating(cl) == [cl EXCEPT !.client.Timeout = @ + cl.timeout]

\* c.client.Timeout = c.timeout
WriteTimeout(cl) == [cl EXCEPT !.client.Timeout = cl.timeout]

\* the func literal assigned to c.client.CheckRedirect; it captures c
RedirectHook == "Get.func1"

\* c.client.CheckRedirect = func(...) error { ... }
WriteCheckRedirect(cl) == [cl EXCEPT !.client.CheckRedirect = RedirectHook]

\* the func literal with its condition inverted
CheckRedirectFuncInverted(cl) ==
    IF cl.followRedirects THEN "ErrUseLastResponse" ELSE None

\* the body of the func literal, which reads c.followRedirects when called
CheckRedirectFunc(cl) ==
    IF ~cl.followRedirects THEN "ErrUseLastResponse" ELSE None

\* Client.checkRedirect: the hook on the handle, or the default policy when
\* the field is nil (which follows, up to 10 hops)
CallHook(cl) ==
    IF cl.client.CheckRedirect = None THEN None ELSE CheckRedirectFunc(cl)

InitGet ==
    /\ options \in OptionSeqs(MaxGetOpts)
    /\ i = Len(options)
    /\ npc = "returned"
    /\ c = NewClient(options)
    /\ built = Resolved(c)
    /\ IdleCalls

\* lines 71-74 without the early return: the error is dropped
GetNewRequestErrDropped(p) ==
    /\ npc = "returned"
    /\ pc[p] = "idle"
    /\ \E url \in Targets :
        /\ target' = [target EXCEPT ![p] = url]
        /\ req' = [req EXCEPT ![p] = NewRequest(url)]
        /\ pc' = [pc EXCEPT ![p] = "L76"]
    /\ UNCHANGED <<wrote, used, responses, ret, writer>>
    /\ UNCHANGED buildVars

\* lines 71-74: http.NewRequest and the early return
GetNewRequest(p) ==
    /\ npc = "returned"
    /\ pc[p] = "idle"
    /\ \E url \in Targets :
        /\ target' = [target EXCEPT ![p] = url]
        /\ \/ /\ NewRequestErr(url) # None
              /\ ret' = [ret EXCEPT ![p] = [resp |-> None, err |-> NewRequestErr(url)]]
              /\ pc' = [pc EXCEPT ![p] = "returned"]
              /\ UNCHANGED req
           \/ /\ NewRequestErr(url) = None
              /\ req' = [req EXCEPT ![p] = NewRequest(url)]
              /\ pc' = [pc EXCEPT ![p] = "L76"]
              /\ UNCHANGED ret
    /\ UNCHANGED <<wrote, used, responses, writer>>
    /\ UNCHANGED buildVars

\* line 76
GetSetUserAgent(p) ==
    /\ pc[p] = "L76"
    /\ req' = [req EXCEPT ![p] = SetUserAgent(@, c)]
    /\ pc' = [pc EXCEPT ![p] = "L78"]
    /\ UNCHANGED <<target, wrote, used, responses, ret, writer>>
    /\ UNCHANGED buildVars

\* line 78
GetWriteTimeout(p) ==
    /\ pc[p] = "L78"
    /\ c' = WriteTimeout(c)
    /\ wrote' = [wrote EXCEPT ![p].Timeout = <<c'.client.Timeout>>]
    /\ writer' = [writer EXCEPT !.Timeout = p]
    /\ pc' = [pc EXCEPT ![p] = "L79"]
    /\ UNCHANGED <<target, req, used, responses, ret>>
    /\ UNCHANGED <<options, i, npc, built>>

\* lines 79-84
GetWriteCheckRedirect(p) ==
    /\ pc[p] = "L79"
    /\ c' = WriteCheckRedirect(c)
    /\ wrote' = [wrote EXCEPT ![p].CheckRedirect = <<c'.client.CheckRedirect>>]
    /\ writer' = [writer EXCEPT !.CheckRedirect = p]
    /\ pc' = [pc EXCEPT ![p] = "L86"]
    /\ UNCHANGED <<target, req, used, responses, ret>>
    /\ UNCHANGED <<options, i, npc, built>>

\* line 86, the call: Client.Do computes the call's deadline from the
\* Timeout the handle holds now
GetDo(p) ==
    /\ pc[p] = "L86"
    /\ used' = [used EXCEPT ![p].Timeout = <<c.client.Timeout>>,
                            ![p].TimeoutFrom = <<writer.Timeout>>]
    /\ pc' = [pc EXCEPT ![p] = "roundTrip"]
    /\ UNCHANGED <<target, req, wrote, responses, ret, writer>>
    /\ UNCHANGED buildVars

\* line 86, inside Do: one round trip. The transport refuses an unsupported
\* scheme without a network request; otherwise the request is issued and the
\* endpoint answers 200, answers with a redirect, or the round trip fails.
DoRoundTrip(p) ==
    /\ pc[p] = "roundTrip"
    /\ \/ /\ RoundTripRefuses(req[p])
          /\ ret' = [ret EXCEPT ![p] = [resp |-> None, err |-> "unsupported protocol scheme"]]
          /\ pc' = [pc EXCEPT ![p] = "returned"]
          /\ UNCHANGED responses
       \/ /\ ~RoundTripRefuses(req[p])
          /\ responses' = [responses EXCEPT ![p] = Append(@, "200 OK")]
          /\ ret' = [ret EXCEPT ![p] = [resp |-> "200 OK", err |-> None]]
          /\ pc' = [pc EXCEPT ![p] = "returned"]
       \/ /\ ~RoundTripRefuses(req[p])
          /\ Len(responses[p]) < MaxHops
          /\ responses' = [responses EXCEPT ![p] = Append(@, "302 Found")]
          /\ pc' = [pc EXCEPT ![p] = "checkRedirect"]
          /\ UNCHANGED ret
       \/ /\ ~RoundTripRefuses(req[p])
          /\ \E e \in {"TransportError"} \cup
                      (IF HasDeadline(used[p].Timeout[1]) THEN {"TimeoutError"} ELSE {}) :
              /\ responses' = [responses EXCEPT ![p] = Append(@, e)]
              /\ ret' = [ret EXCEPT ![p] = [resp |-> None, err |-> e]]
          /\ pc' = [pc EXCEPT ![p] = "returned"]
    /\ UNCHANGED <<target, req, wrote, used, writer>>
    /\ UNCHANGED buildVars

\* line 86, inside Do: a redirect response makes Do call the CheckRedirect
\* hook the handle holds now; ErrUseLastResponse returns the response as it
\* is with a nil error, nil follows the redirect
DoCheckRedirect(p) ==
    /\ pc[p] = "checkRedirect"
    /\ used' = [used EXCEPT ![p].CheckRedirect = <<c.client.CheckRedirect>>,
                            ![p].CheckRedirectFrom = <<writer.CheckRedirect>>]
    /\ \/ /\ CallHook(c) = "ErrUseLastResponse"
          /\ ret' = [ret EXCEPT ![p] =
                        [resp |-> responses[p][Len(responses[p])], err |-> None]]
          /\ pc' = [pc EXCEPT ![p] = "returned"]
       \/ /\ CallHook(c) = None
          /\ pc' = [pc EXCEPT ![p] = "roundTrip"]
          /\ UNCHANGED ret
    /\ UNCHANGED <<target, req, wrote, responses, writer>>
    /\ UNCHANGED buildVars

\* the caller takes the result; the goroutine may call Get again
GetReturn(p) ==
    /\ pc[p] = "returned"
    /\ pc' = [pc EXCEPT ![p] = "idle"]
    /\ target' = [target EXCEPT ![p] = None]
    /\ req' = [req EXCEPT ![p] = NoReq]
    /\ wrote' = [wrote EXCEPT ![p] = NoSettings]
    /\ used' = [used EXCEPT ![p] = NoUse]
    /\ responses' = [responses EXCEPT ![p] = <<>>]
    /\ ret' = [ret EXCEPT ![p] = NoRet]
    /\ UNCHANGED writer
    /\ UNCHANGED buildVars

NextGet ==
    \E p \in Callers :
        \/ GetNewRequest(p)
        \/ GetSetUserAgent(p)
        \/ GetWriteTimeout(p)
        \/ GetWriteCheckRedirect(p)
        \/ GetDo(p)
        \/ DoRoundTrip(p)
        \/ DoCheckRedirect(p)
        \/ GetReturn(p)

SpecGet == InitGet /\ [][NextGet]_vars

---------------------------------------------------------------------------
(* Construction: properties of NewClient and the options (SpecBuild) *)

Opt(name, arg) == [name |-> name, arg |-> arg]

\* the indexes of the options made by constructor `name` among opts
Made(opts, name) == {k \in 1..Len(opts) : opts[k].name = name}

\* the argument of the last option made by `name`, or default
LastArg(opts, name, default) ==
    IF Made(opts, name) = {} THEN default
    ELSE opts[CHOOSE k \in Made(opts, name) : \A j \in Made(opts, name) : j <= k].arg

\* C1: NewClient with no options returns timeout 30 s, userAgent
\* "My HTTP Client", followRedirects true and no transport installed, so the
\* verifying default transport is used.
C1_Defaults ==
    (npc = "returned" /\ options = <<>>) =>
        /\ c.timeout = 30
        /\ c.userAgent = "My HTTP Client"
        /\ c.followRedirects = TRUE
        /\ c.client.Transport.isNil
        /\ ~SkipsVerify(c)

C1_Witness == npc = "returned" /\ options = <<>> /\ built.timeout = 30

\* C2: after any prefix of the option sequence has been applied, and so at
\* return, timeout is the argument of the last WithTimeout applied (30 if
\* none) and userAgent the argument of the last WithUserAgent applied
\* ("My HTTP Client" if none); zero, negative and empty arguments alike.
C2_LastWriteWins ==
    /\ c.timeout = LastArg(SubSeq(options, 1, i), "WithTimeout", 30)
    /\ c.userAgent = LastArg(SubSeq(options, 1, i), "WithUserAgent", "My HTTP Client")

C2_Witness ==
    /\ npc = "returned"
    /\ options = <<Opt("WithTimeout", 5), Opt("WithTimeout", 10)>>
    /\ built.timeout = 10

\* C3: NewClient applied to O followed by O again resolves to the same
\* configuration as NewClient applied to O; and a non-empty sequence of
\* WithoutRedirects alone gives followRedirects = false.
C3_Idempotent ==
    npc = "returned" =>
        /\ Resolved(NewClient(options \o options)) = built
        /\ (options # <<>> /\ Made(options, "WithoutRedirects") = 1..Len(options))
              => ~c.followRedirects

C3_Witness ==
    /\ npc = "returned"
    /\ options = <<Opt("WithoutRedirects", None), Opt("WithTimeout", 5),
                   Opt("WithoutRedirects", None)>>
    /\ built = Resolved(NewClient(options \o options))
    /\ ~built.followRedirects

\* C8: at every point of NewClient's loop the handle's transport is the
\* verification-skipping one if UseInsecureTransport is among the options
\* applied so far, whatever its position, and is not installed otherwise.
C8_InsecureIff ==
    IF Made(SubSeq(options, 1, i), "UseInsecureTransport") # {}
    THEN c.client.Transport = InsecureTransport /\ SkipsVerify(c)
    ELSE c.client.Transport = NilTransport /\ ~SkipsVerify(c)

C8_Witness ==
    /\ npc = "returned"
    /\ options = <<Opt("UseInsecureTransport", None), Opt("WithTimeout", 10),
                   Opt("WithUserAgent", "")>>
    /\ built.insecure

\* C9: every application of an option changes only the field that option is
\* for, never turns followRedirects back on, and commutes with every option
\* made by another constructor.
C9_Frame ==
    [][i' = i + 1 =>
        LET opt == options[i'] IN
        /\ c' = Apply(opt, c)
        /\ opt.name # "WithTimeout" => c'.timeout = c.timeout
        /\ opt.name # "WithUserAgent" => c'.userAgent = c.userAgent
        /\ opt.name # "WithoutRedirects" => c'.followRedirects = c.followRedirects
        /\ opt.name # "UseInsecureTransport" => c'.client.Transport = c.client.Transport
        /\ c'.client.Timeout = c.client.Timeout
        /\ c'.client.CheckRedirect = c.client.CheckRedirect
        /\ ~c.followRedirects => ~c'.followRedirects
        /\ \A other \in Option :
              other.name # opt.name =>
                  Apply(other, Apply(opt, c)) = Apply(opt, Apply(other, c))
    ]_vars

C9_Witness ==
    /\ i = 2
    /\ options[1] = Opt("WithoutRedirects", None)
    /\ options[2] = Opt("WithTimeout", 0)
    /\ ~c.followRedirects
    /\ c.timeout = 0
    /\ c.userAgent = "My HTTP Client"

---------------------------------------------------------------------------
(* Requests: properties of Client.Get (SpecGet) *)

\* the targets the specification calls malformed: the empty string and the
\* two with a missing scheme
Malformed(url) == url \in {"", "example.com/users", "://example.com"}

DoInvoked(p) == used[p].Timeout # <<>>

\* C4, as stated: every Get with a malformed target returns no response and
\* the request-construction error, without the transport being invoked.
C4_Original ==
    \A p \in Callers :
        (pc[p] = "returned" /\ Malformed(target[p])) =>
            /\ ret[p].resp = None
            /\ ret[p].err = "parse: missing protocol scheme"
            /\ ~DoInvoked(p)
            /\ responses[p] = <<>>

\* C4, amended: every Get with a malformed target returns no response and an
\* error, and issues no network request. A target request construction
\* rejects ("://example.com") fails before anything is written to the handle
\* and without Do being called; the empty string and a scheme-less target
\* pass request construction, and fail inside Do with "unsupported protocol
\* scheme".
C4_MalformedFails ==
    \A p \in Callers :
        (pc[p] = "returned" /\ Malformed(target[p])) =>
            /\ ret[p].resp = None
            /\ responses[p] = <<>>
            /\ IF target[p] = "://example.com"
               THEN /\ ret[p].err = "parse: missing protocol scheme"
                    /\ ~DoInvoked(p)
                    /\ wrote[p] = NoSettings
               ELSE /\ ret[p].err = "unsupported protocol scheme"
                    /\ DoInvoked(p)
                    /\ wrote[p].Timeout = <<c.timeout>>

C4_Witness ==
    \E p, q \in Callers :
        /\ pc[p] = "returned" /\ target[p] = "://example.com"
        /\ ret[p].err = "parse: missing protocol scheme"
        /\ pc[q] = "returned" /\ target[q] = ""
        /\ ret[q].err = "unsupported protocol scheme"

\* C5: a Get whose first answer is a redirect returns, when followRedirects
\* is false, that response with a nil error after exactly one request; when
\* followRedirects is true every redirect answer is followed by a further
\* request, so the call never ends on a redirect.
C5_RedirectPolicy ==
    \A p \in Callers :
        (pc[p] = "returned" /\ responses[p] # <<>> /\ responses[p][1] = "302 Found") =>
            IF ~c.followRedirects
            THEN /\ ret[p] = [resp |-> "302 Found", err |-> None]
                 /\ Len(responses[p]) = 1
            ELSE /\ Len(responses[p]) >= 2
                 /\ responses[p][Len(responses[p])] # "302 Found"
                 /\ ret[p].resp # "302 Found"

C5_Witness ==
    \E p \in Callers :
        /\ pc[p] = "returned"
        /\ ~c.followRedirects
        /\ responses[p] = <<"302 Found">>
        /\ ret[p] = [resp |-> "302 Found", err |-> None]

\* C6: when a Get call is about to invoke the transport, and while the
\* transport runs, the request holds a User-Agent header equal to the
\* configured userAgent (present also when that is empty) and the timeout on
\* the handle, which Do takes the deadline from, is the configured timeout.
C6_AtInvocation ==
    \A p \in Callers :
        /\ pc[p] \in {"L86", "roundTrip", "checkRedirect"} =>
              /\ "User-Agent" \in DOMAIN req[p].Header
              /\ req[p].Header["User-Agent"] = c.userAgent
              /\ c.client.Timeout = c.timeout
        /\ pc[p] \in {"roundTrip", "checkRedirect"} =>
              used[p].Timeout = <<c.timeout>>

C6_Witness ==
    \E p \in Callers :
        /\ pc[p] = "roundTrip"
        /\ c.userAgent = ""
        /\ req[p].Header["User-Agent"] = ""
        /\ used[p].Timeout = <<30>>

\* the setting the call's request ran under was written by the other call:
\* the call's own write was overwritten before its request was issued
Overwritten(p) ==
    \/ used[p].TimeoutFrom \notin {<<>>, <<p>>}
    \/ used[p].CheckRedirectFrom \notin {<<>>, <<p>>}

\* the request ran under a timeout or a redirect hook other than the one
\* the call wrote
Differs(p) ==
    \/ used[p].Timeout # <<>> /\ used[p].Timeout # wrote[p].Timeout
    \/ used[p].CheckRedirect # <<>> /\ used[p].CheckRedirect # wrote[p].CheckRedirect

\* C7, as stated: a call whose write was overwritten by the other call before
\* its request was issued runs under a setting that differs from the one it
\* wrote.
C7_Original == \A p \in Callers : Overwritten(p) => Differs(p)

\* C7, amended: a call's write can be overwritten by the other call before
\* its request is issued, but both calls write the same values, so every
\* request runs under the timeout and the redirect hook its call wrote.
C7_RaceIsBenign == \A p \in Callers : ~Differs(p)

C7_Witness ==
    \E p \in Callers :
        /\ used[p].TimeoutFrom \notin {<<>>, <<p>>}
        /\ used[p].CheckRedirectFrom \notin {<<>>, <<p>>}
        /\ c.timeout # 0

\* C10: whatever Get calls have run, the Client's timeout, userAgent and
\* followRedirects are the ones NewClient returned, and the handle's timeout
\* is 0 while no Get has written it and the configured timeout afterwards.
C10_Immutable ==
    /\ c.timeout = built.timeout
    /\ c.userAgent = built.userAgent
    /\ c.followRedirects = built.followRedirects
    /\ c.client.Timeout = (IF writer.Timeout = None THEN 0 ELSE c.timeout)

C10_Witness ==
    \E p, q \in Callers :
        /\ pc[p] = "returned" /\ ret[p].err = "TransportError"
        /\ pc[q] = "returned" /\ ret[q].resp = "200 OK"
        /\ c.client.Timeout = 10
        /\ built.timeout = 10

====
